---- MODULE Spec2Model ----
(***************************************************************************)
(* A model of the patch-header validator (.github/scripts/validate_patch.py)*)
(* and of the Jira step of .github/scripts/pr_jira_commentor.py.            *)
(*                                                                         *)
(* Text is modelled as a sequence of one-character strings, a file as the  *)
(* list of lines readlines() returns (each line keeps its "\n").           *)
(***************************************************************************)
EXTENDS Integers, Sequences, FiniteSets

\* ------------------------------------------------------------------ bounds

\* the longest argument list given to validate_patch.py
MaxFiles == 2
\* the longest file built freely from LinePool
MaxLines == 3

\* --------------------------------------------------------------- characters

NL == "\n"

UpperSeq == <<"A", "B", "C", "D", "E", "F", "G", "H", "I", "J", "K", "L", "M",
              "N", "O", "P", "Q", "R", "S", "T", "U", "V", "W", "X", "Y", "Z">>

LowerSeq == <<"a", "b", "c", "d", "e", "f", "g", "h", "i", "j", "k", "l", "m",
              "n", "o", "p", "q", "r", "s", "t", "u", "v", "w", "x", "y", "z">>

Upper == {UpperSeq[k] : k \in 1..26}

Letters == Upper \cup {LowerSeq[k] : k \in 1..26}

Digits == {"0", "1", "2", "3", "4", "5", "6", "7", "8", "9"}

\* what str.strip() removes and the regex class \s matches
Whitespace == {" ", "\t", "\n", "\r"}

\* ------------------------------------------------------------ str methods

\* str.lower() on one character
LowerChar(c) ==
    IF c \in Upper THEN LowerSeq[CHOOSE k \in 1..26 : UpperSeq[k] = c] ELSE c

\* str.lower()
Lower(s) == [k \in 1..Len(s) |-> LowerChar(s[k])]

\* str.rstrip("\n")
RECURSIVE RStripNL(_)
RStripNL(s) ==
    IF s # <<>> /\ s[Len(s)] = NL THEN RStripNL(SubSeq(s, 1, Len(s) - 1)) ELSE s

RECURSIVE LStrip(_)
LStrip(s) == IF s # <<>> /\ s[1] \in Whitespace THEN LStrip(Tail(s)) ELSE s

RECURSIVE RStrip(_)
RStrip(s) ==
    IF s # <<>> /\ s[Len(s)] \in Whitespace
    THEN RStrip(SubSeq(s, 1, Len(s) - 1))
    ELSE s

\* str.strip()
Strip(s) == LStrip(RStrip(s))

\* str.startswith(p)
StartsWith(s, p) == Len(s) >= Len(p) /\ SubSeq(s, 1, Len(p)) = p

\* "\n".join(parts)
RECURSIVE JoinNL(_)
JoinNL(parts) ==
    IF parts = <<>> THEN <<>>
    ELSE IF Len(parts) = 1 THEN parts[1]
    ELSE parts[1] \o <<NL>> \o JoinNL(Tail(parts))

\* -------------------------------------------------------------- constants

KeyJIRA == <<"J", "I", "R", "A">>
KeyUpstream == <<"U", "p", "s", "t", "r", "e", "a", "m">>
KeyTitle == <<"T", "i", "t", "l", "e">>
KeyAuthor == <<"A", "u", "t", "h", "o", "r">>
KeyDate == <<"D", "a", "t", "e">>
KeyDescription == <<"D", "e", "s", "c", "r", "i", "p", "t", "i", "o", "n">>

REQUIRED_KEYS ==
    <<KeyJIRA, KeyUpstream, KeyTitle, KeyAuthor, KeyDate, KeyDescription>>

StrYes == <<"y", "e", "s">>
StrNo == <<"n", "o">>
\* str(None), what the f-string prints for fields.get('Upstream') of an
\* absent key
StrNone == <<"N", "o", "n", "e">>

PfxDiff == <<"d", "i", "f", "f", " ">>
PfxPlus == <<"+", "+", "+", " ">>
PfxMinus == <<"-", "-", "-", " ">>
PfxAt == <<"@", "@", " ">>

\* the shortest Description the validator accepts
MinDescription == 20

\* ------------------------------------------------------------ the regexes

\* IsDiffBoundary without the hunk marker "@@ "
IsDiffBoundaryNoHunk(s) ==
    \/ StartsWith(s, PfxDiff)
    \/ StartsWith(s, PfxPlus)
    \/ StartsWith(s, PfxMinus)

\* re.match(r'^(diff |\+\+\+ |--- |@@ )', s)
IsDiffBoundary(s) ==
    \/ StartsWith(s, PfxDiff)
    \/ StartsWith(s, PfxPlus)
    \/ StartsWith(s, PfxMinus)
    \/ StartsWith(s, PfxAt)

\* the length of the longest prefix of s made of letters
RECURSIVE LetterRun(_)
LetterRun(s) ==
    IF s # <<>> /\ s[1] \in Letters THEN 1 + LetterRun(Tail(s)) ELSE 0

\* re.match(r'^([A-Za-z]+):\s*(.*)$', line): group 1 is the leading run of
\* letters, which a colon must follow; \s* takes the whitespace after the
\* colon and group 2 is the rest of the line
HeaderMatch(line) ==
    LET n == LetterRun(line) IN
    IF n >= 1 /\ Len(line) > n /\ line[n + 1] = ":"
    THEN [ok |-> TRUE,
          key |-> SubSeq(line, 1, n),
          value |-> LStrip(SubSeq(line, n + 2, Len(line)))]
    ELSE [ok |-> FALSE, key |-> <<>>, value |-> <<>>]

\* JIRA_RE.search(s) is not None, JIRA_RE = [A-Za-z][A-Za-z0-9]+-\d+
JiraSearch(s) ==
    \E p \in 1..Len(s) : \E q \in (p + 2)..(Len(s) - 1) :
        /\ s[p] \in Letters
        /\ \A r \in (p + 1)..(q - 1) : s[r] \in Letters \cup Digits
        /\ s[q] = "-"
        /\ s[q + 1] \in Digits

\* ------------------------------------------------------------------- dict

EmptyDict == [k \in {} |-> <<>>]

\* d[k] = v
Put(d, k, v) == [x \in DOMAIN d \cup {k} |-> IF x = k THEN v ELSE d[x]]

\* d.get(k, "")
Get(d, k) == IF k \in DOMAIN d THEN d[k] ELSE <<>>

\* ------------------------------------------------------------ parse_header

\* DescEnd resuming one line early, on the last line it collected
DescEndBack(lines, j) == j - 1

\* the inner while of the Description branch: the index at which the
\* collection of continuation lines stops, starting at j (0-based)
RECURSIVE DescEnd(_, _)
DescEnd(lines, j) ==
    IF j < Len(lines)
       /\ ~ (IsDiffBoundary(lines[j + 1]) \/ Strip(lines[j + 1]) = <<>>)
    THEN DescEnd(lines, j + 1)
    ELSE j

\* the state of parse_header before its loop
ParseInit == [fields |-> EmptyDict, desc_lines |-> <<>>, i |-> 0, brk |-> FALSE]

\* one pass of the while loop of parse_header, entered with st.i < Len(lines);
\* brk tells that the pass left the loop by break
ParsePass(lines, st) ==
    LET i == st.i
        line == RStripNL(lines[i + 1])
        m == HeaderMatch(line)
    IN
    IF Strip(line) = <<>>
    THEN [st EXCEPT !.i = i + 1,
                    !.brk = (i + 1 < Len(lines) /\ IsDiffBoundary(lines[i + 2]))]
    ELSE IF m.ok
    THEN IF m.key = KeyDescription
         THEN LET j == DescEnd(lines, i + 1)
                  first == IF m.value # <<>> THEN <<m.value>> ELSE <<>>
                  more == [k \in 1..(j - (i + 1)) |-> RStripNL(lines[i + 1 + k])]
                  dl == st.desc_lines \o first \o more
                  joined == JoinNL([k \in 1..Len(dl) |-> Strip(dl[k])])
              IN [st EXCEPT !.desc_lines = dl,
                            !.fields = Put(st.fields, KeyDescription, Strip(joined)),
                            !.i = j]
         ELSE [st EXCEPT !.fields = Put(st.fields, m.key, Strip(m.value)),
                         !.i = i + 1]
    ELSE IF IsDiffBoundary(line)
    THEN [st EXCEPT !.brk = TRUE]
    ELSE [st EXCEPT !.i = i + 1]

\* remaining = lines[i:]
Remaining(lines, i) == SubSeq(lines, i + 1, Len(lines))

\* parse_header(lines): the loop run to its end
RECURSIVE ParseLoop(_, _)
ParseLoop(lines, st) ==
    IF st.brk \/ st.i >= Len(lines) THEN st ELSE ParseLoop(lines, ParsePass(lines, st))

ParseHeader(lines) == ParseLoop(lines, ParseInit)

\* ------------------------------------------------------ validate_patch_file

\* one violation message: its kind and the text the message quotes
Err(kind, arg) == [kind |-> kind, arg |-> arg]

EmptyFileErr == Err("Empty file", <<>>)

\* the check of one required key: absent, or blank after trimming
MissingKey(fields, key) == key \notin DOMAIN fields \/ Strip(fields[key]) = <<>>

\* the loop over REQUIRED_KEYS, from the k-th key on
RECURSIVE MissingErrs(_, _)
MissingErrs(fields, k) ==
    IF k > Len(REQUIRED_KEYS) THEN <<>>
    ELSE (IF MissingKey(fields, REQUIRED_KEYS[k])
          THEN <<Err("Missing", REQUIRED_KEYS[k])>>
          ELSE <<>>) \o MissingErrs(fields, k + 1)

\* the JIRA check: skipped for an absent or empty value
JiraErrs(fields) ==
    LET jira == Get(fields, KeyJIRA) IN
    IF jira # <<>> /\ ~ JiraSearch(jira) THEN <<Err("JIRA", jira)>> ELSE <<>>

\* the Upstream check; the message quotes fields.get('Upstream'), None for
\* an absent key
UpstreamErrs(fields) ==
    IF Lower(Get(fields, KeyUpstream)) \notin {StrYes, StrNo}
    THEN <<Err("Upstream",
               IF KeyUpstream \in DOMAIN fields THEN fields[KeyUpstream] ELSE StrNone)>>
    ELSE <<>>

\* DescriptionTooShort with the comparison off by one (<= for <)
DescriptionTooShortOffByOne(desc) == Len(Strip(desc)) <= MinDescription

\* len(desc.strip()) < 20
DescriptionTooShort(desc) == Len(Strip(desc)) < MinDescription

DescriptionErr == Err("Description", <<>>)

\* the Description check
DescriptionErrs(fields) ==
    IF DescriptionTooShort(Get(fields, KeyDescription)) THEN <<DescriptionErr>> ELSE <<>>

\* CheckFields leaving at the first check that reports something
CheckFieldsEarlyExit(fields) ==
    IF MissingErrs(fields, 1) # <<>> THEN MissingErrs(fields, 1)
    ELSE IF JiraErrs(fields) # <<>> THEN JiraErrs(fields)
    ELSE IF UpstreamErrs(fields) # <<>> THEN UpstreamErrs(fields)
    ELSE DescriptionErrs(fields)

\* the checks of validate_patch_file on the parsed fields, in the code's order
CheckFields(fields) ==
    MissingErrs(fields, 1) \o JiraErrs(fields) \o UpstreamErrs(fields)
        \o DescriptionErrs(fields)

\* validate_patch_file on the lines of a file that could be read
ValidateLines(lines) ==
    IF lines = <<>> THEN <<EmptyFileErr>> ELSE CheckFields(ParseHeader(lines).fields)

\* ------------------------------------------------------------------- files

LJiraOk == <<"J", "I", "R", "A", ":", " ", "A", "B", "C", "-", "1", "2", "3", NL>>

LUpNo == <<"U", "p", "s", "t", "r", "e", "a", "m", ":", " ", "n", "o", NL>>

LTitle == <<"T", "i", "t", "l", "e", ":", " ", "T", NL>>

LAuthor == <<"A", "u", "t", "h", "o", "r", ":", " ", "A", NL>>

LDate == <<"D", "a", "t", "e", ":", " ", "D", NL>>

LDesc20 == <<"D", "e", "s", "c", "r", "i", "p", "t", "i", "o", "n", ":", " ", "a", "b", "c", "d", "e", "f", "g", "h", "i", "j", "0", "1", "2", "3", "4", "5", "6", "7", "8", "9", NL>>

LJiraBad == <<"J", "I", "R", "A", ":", " ", "n", "o", "t", "t", "i", "c", "k", "e", "t", "s", NL>>

LUpSure == <<"U", "p", "s", "t", "r", "e", "a", "m", ":", " ", "s", "u", "r", "e", NL>>

LDescShort == <<"D", "e", "s", "c", "r", "i", "p", "t", "i", "o", "n", ":", " ", "s", "h", "o", "r", "t", NL>>

LDiff == <<"d", "i", "f", "f", " ", "-", "-", "g", "i", "t", " ", "a", "/", "x", " ", "b", "/", "x", NL>>

LBlank == <<NL>>

LDesc10 == <<"D", "e", "s", "c", "r", "i", "p", "t", "i", "o", "n", ":", " ", "a", "b", "c", "d", "e", "f", "g", "h", "i", "j", NL>>

LCont9 == <<" ", " ", "1", "2", "3", "4", "5", "6", "7", "8", "9", NL>>

LCont8 == <<" ", " ", "1", "2", "3", "4", "5", "6", "7", "8", NL>>

LUpYES == <<"U", "p", "s", "t", "r", "e", "a", "m", ":", " ", "Y", "E", "S", NL>>

LComment == <<"#", " ", "n", "o", "t", "e", NL>>

LDescEmpty == <<"D", "e", "s", "c", "r", "i", "p", "t", "i", "o", "n", ":", NL>>

LJiraNoNL == <<"J", "I", "R", "A", ":", " ", "X", "1", "-", "4", "2">>

LHunk == <<"@", "@", " ", "-", "1", " ", "+", "1", " ", "@", "@", NL>>

ExtPatch == <<".", "p", "a", "t", "c", "h">>

ExtDiff == <<".", "d", "i", "f", "f">>

PatchesDir == <<"p", "a", "t", "c", "h", "e", "s", "/">>

NameA == <<"a", ".", "p", "a", "t", "c", "h">>

NameB == <<"b", ".", "d", "i", "f", "f">>

NameC == <<"n", "o", "t", "e", "s", ".", "t", "x", "t">>

PathP == <<"p", ".", "p", "a", "t", "c", "h">>

PathQ == <<"q", ".", "p", "a", "t", "c", "h">>

PathR == <<"r", ".", "d", "i", "f", "f">>

PathS == <<"s", ".", "p", "a", "t", "c", "h">>

\* a file of the file system: whether open() succeeds, and what readlines()
\* returns
File(ls) == [readable |-> TRUE, lines |-> ls]

\* a path open() raises OSError for (missing, a directory, no permission)
Unreadable == [readable |-> FALSE, lines |-> <<>>]

\* a header with the six required fields valid, Description last
ValidHeader == <<LJiraOk, LUpNo, LTitle, LAuthor, LDate, LDesc20>>

\* a header with a bad ticket key, a bad Upstream value and a short
\* Description, Description last
MultiHeader == <<LJiraBad, LUpSure, LTitle, LAuthor, LDate, LDescShort>>

\* the files of a run over several paths
Corpus ==
    {Unreadable, File(<<>>), File(<<LDiff>>),
     File(ValidHeader \o <<LDiff>>), File(MultiHeader \o <<LDiff>>),
     File(<<LDesc10, LCont9, LDiff>>), File(<<LDesc10, LCont8, LDiff>>)}

\* the orders of the elements of sequence s
LineOrders(s) ==
    LET n == Len(s)
        inj == {f \in [1..n -> 1..n] : \A a, b \in 1..n : f[a] = f[b] => a = b}
    IN {[k \in 1..n |-> s[f[k]]] : f \in inj}

\* the lines short files are built from
LinePool ==
    {LDiff, LBlank, LJiraOk, LJiraNoNL, LUpYES, LDesc10, LCont9, LCont8,
     LComment, LDescEmpty, LHunk}

\* readlines() leaves only the last line without its "\n"
WellFormed(ls) == \A k \in 1..(Len(ls) - 1) : ls[k][Len(ls[k])] = NL

ShortFiles ==
    {File(ls) : ls \in {l \in UNION {[1..m -> LinePool] : m \in 0..MaxLines} :
                           WellFormed(l)}}

\* the files of a run over one path: the corpus, every short file, and the
\* two headers in every order of their lines
SingleFiles ==
    Corpus \cup ShortFiles
        \cup {File(p \o <<LDiff>>) : p \in LineOrders(ValidHeader)}
        \cup {File(p \o <<LDiff>>) : p \in LineOrders(MultiHeader)}

\* the paths given on the command line, in order
PathNames == <<PathP, PathQ, PathR, PathS>>

\* what patches/ may hold
DirNames == {NameA, NameB, NameC}

\* str.endswith(ext), the match of the glob pattern "*" + ext
EndsWith(s, ext) ==
    Len(s) >= Len(ext) /\ SubSeq(s, Len(s) - Len(ext) + 1, Len(s)) = ext

\* the lists a glob may return for the set of its matches: any order
Orderings(S) ==
    {f \in [1..Cardinality(S) -> S] :
        \A a, b \in 1..Cardinality(S) : f[a] = f[b] => a = b}

\* list(p.glob("*" + ext)) for p = Path("patches")
Glob(entries, ext) ==
    Orderings({PatchesDir \o e : e \in {x \in entries : EndsWith(x, ext)}})

\* ------------------------------------------------------------------ state

VARIABLES
    argv,            \* sys.argv[1:]
    dirExists,       \* Path("patches").exists()
    dirEntries,      \* the names in patches/
    fs,              \* path -> file
    pc,              \* where main is
    files,           \* main: files
    idx,             \* main: the position of the for loop, from 1
    overall_failed,  \* main: overall_failed
    lines,           \* validate_patch_file: lines
    fields,          \* parse_header: fields
    desc_lines,      \* parse_header: desc_lines
    i,               \* parse_header: i
    remaining,       \* parse_header: remaining, <<>> until it is assigned
    errs,            \* what validate_patch_file returned for the current file
    results,         \* the list returned for each file reported so far
    stdout,          \* the lines printed
    stderr,          \* the diagnostics printed
    exit_code,       \* the status of the process, -1 while it runs
    dry_run_given,   \* pr_jira_commentor: --dry-run is on the command line
    env,             \* pr_jira_commentor: which environment variables are set
    pr,              \* pr_jira_commentor: the pull request GitHub returns
    pr_files,        \* pr_jira_commentor: the files of the pull request
    gh_up,           \* pr_jira_commentor: the GitHub API answers
    jira_up,         \* pr_jira_commentor: the Jira API accepts the request
    comments,        \* pr_jira_commentor: the comments posted to the PR
    jira_posts       \* pr_jira_commentor: the issue-creation requests sent

validator ==
    <<argv, dirExists, dirEntries, fs, files, idx, overall_failed, lines,
      fields, desc_lines, i, remaining, errs, results>>

commentor ==
    <<dry_run_given, env, pr, pr_files, gh_up, jira_up, comments, jira_posts>>

vars == <<validator, commentor, pc, stdout, stderr, exit_code>>

inputs == <<argv, dirExists, dirEntries, fs, commentor>>

parser == <<lines, fields, desc_lines, i, remaining>>

\* one printed line
Out(tag, path, n, msg) == [tag |-> tag, path |-> path, n |-> n, msg |-> msg]

NoErr == Err("", <<>>)

Range(s) == {s[k] : k \in 1..Len(s)}

\* pr_jira_commentor is not running
CommentorIdle ==
    /\ dry_run_given = FALSE
    /\ env = [GITHUB_TOKEN |-> FALSE, JIRA_BASE |-> FALSE, JIRA_USER |-> FALSE,
              JIRA_API_TOKEN |-> FALSE]
    /\ pr = [title |-> <<>>, body |-> <<>>]
    /\ pr_files = <<>>
    /\ gh_up = FALSE
    /\ jira_up = FALSE
    /\ comments = <<>>
    /\ jira_posts = 0

Init ==
    /\ \E n \in 0..MaxFiles :
        /\ argv = SubSeq(PathNames, 1, n)
        /\ IF n = 0
           THEN /\ dirExists \in BOOLEAN
                /\ dirEntries \in SUBSET DirNames
                /\ ~ dirExists => dirEntries = {}
                /\ fs \in [{PatchesDir \o e : e \in dirEntries} -> Corpus]
           ELSE /\ dirExists = FALSE
                /\ dirEntries = {}
                /\ fs \in [Range(argv) -> IF n = 1 THEN SingleFiles ELSE Corpus]
    /\ CommentorIdle
    /\ pc = "start"
    /\ files = <<>>
    /\ idx = 0
    /\ overall_failed = FALSE
    /\ lines = <<>>
    /\ fields = EmptyDict
    /\ desc_lines = <<>>
    /\ i = 0
    /\ remaining = <<>>
    /\ errs = <<>>
    /\ results = <<>>
    /\ stdout = <<>>
    /\ stderr = <<>>
    /\ exit_code = -1

\* ------------------------------------------------------------------- main

\* main, no paths given and no patches/ folder: the diagnostic and status 1
NoPatchesDir ==
    /\ pc = "start"
    /\ argv = <<>>
    /\ ~ dirExists
    /\ stderr' = Append(stderr, "No patches/ folder found and no paths given.")
    /\ exit_code' = 1
    /\ pc' = "done"
    /\ UNCHANGED <<inputs, files, idx, overall_failed, parser, errs, results, stdout>>

\* NoPatchFiles without the "if not files" test: the loop runs over nothing
NoPatchFilesFallThrough ==
    /\ pc = "start"
    /\ argv = <<>>
    /\ dirExists
    /\ Glob(dirEntries, ExtPatch) = {<<>>}
    /\ Glob(dirEntries, ExtDiff) = {<<>>}
    /\ files' = <<>>
    /\ overall_failed' = FALSE
    /\ idx' = 1
    /\ pc' = "loop"
    /\ UNCHANGED <<inputs, parser, errs, results, stdout, stderr, exit_code>>

\* main, no paths given and nothing in patches/ matches: the diagnostic and
\* status 1
NoPatchFiles ==
    /\ pc = "start"
    /\ argv = <<>>
    /\ dirExists
    /\ Glob(dirEntries, ExtPatch) = {<<>>}
    /\ Glob(dirEntries, ExtDiff) = {<<>>}
    /\ stderr' = Append(stderr, "No patch files found.")
    /\ exit_code' = 1
    /\ pc' = "done"
    /\ UNCHANGED <<inputs, files, idx, overall_failed, parser, errs, results, stdout>>

\* main, the list of files: the paths given, or the *.patch files of
\* patches/ followed by its *.diff files
ResolveFiles ==
    /\ pc = "start"
    /\ IF argv # <<>>
       THEN files' = argv
       ELSE /\ dirExists
            /\ \E a \in Glob(dirEntries, ExtPatch), b \in Glob(dirEntries, ExtDiff) :
                files' = a \o b
            /\ files' # <<>>
    /\ overall_failed' = FALSE
    /\ idx' = 1
    /\ pc' = "loop"
    /\ UNCHANGED <<inputs, parser, errs, results, stdout, stderr, exit_code>>

\* the file the loop is at
Current == files[idx]

\* print(f"Validating {f} ...")
ValidatingLine(f) == Out("validating", f, 0, NoErr)

\* the loop body up to path.open(), which raises: nothing catches it, the
\* interpreter prints the traceback and exits with status 1
OpenFails ==
    /\ pc = "loop"
    /\ idx <= Len(files)
    /\ ~ fs[Current].readable
    /\ stdout' = Append(stdout, ValidatingLine(Current))
    /\ stderr' = Append(stderr, "Traceback (most recent call last): OSError")
    /\ exit_code' = 1
    /\ pc' = "crashed"
    /\ UNCHANGED <<inputs, files, idx, overall_failed, parser, errs, results>>

\* EmptyFile without the early return: the header checks run on no lines
EmptyFileNoReturn ==
    /\ pc = "loop"
    /\ idx <= Len(files)
    /\ fs[Current].readable
    /\ fs[Current].lines = <<>>
    /\ stdout' = Append(stdout, ValidatingLine(Current))
    /\ lines' = <<>>
    /\ errs' = <<EmptyFileErr>> \o CheckFields(ParseHeader(<<>>).fields)
    /\ pc' = "report"
    /\ UNCHANGED <<inputs, files, idx, overall_failed, fields, desc_lines, i,
                   remaining, results, stderr, exit_code>>

\* the loop body up to the return of validate_patch_file for a file
\* without lines
EmptyFile ==
    /\ pc = "loop"
    /\ idx <= Len(files)
    /\ fs[Current].readable
    /\ fs[Current].lines = <<>>
    /\ stdout' = Append(stdout, ValidatingLine(Current))
    /\ lines' = <<>>
    /\ errs' = <<EmptyFileErr>>
    /\ pc' = "report"
    /\ UNCHANGED <<inputs, files, idx, overall_failed, fields, desc_lines, i,
                   remaining, results, stderr, exit_code>>

\* the loop body up to the call of parse_header
StartParse ==
    /\ pc = "loop"
    /\ idx <= Len(files)
    /\ fs[Current].readable
    /\ fs[Current].lines # <<>>
    /\ stdout' = Append(stdout, ValidatingLine(Current))
    /\ lines' = fs[Current].lines
    /\ fields' = ParseInit.fields
    /\ desc_lines' = ParseInit.desc_lines
    /\ i' = ParseInit.i
    /\ remaining' = <<>>
    /\ pc' = "parse"
    /\ UNCHANGED <<inputs, files, idx, overall_failed, errs, results, stderr,
                   exit_code>>

\* one pass of the loop of parse_header
ParseStep ==
    /\ pc = "parse"
    /\ i < Len(lines)
    /\ LET st == ParsePass(lines, [fields |-> fields, desc_lines |-> desc_lines,
                                   i |-> i, brk |-> FALSE])
       IN /\ fields' = st.fields
          /\ desc_lines' = st.desc_lines
          /\ i' = st.i
          /\ remaining' = IF st.brk THEN Remaining(lines, st.i) ELSE remaining
          /\ pc' = IF st.brk THEN "check" ELSE "parse"
    /\ UNCHANGED <<inputs, files, idx, overall_failed, lines, errs, results,
                   stdout, stderr, exit_code>>

\* the loop of parse_header ends at the end of the input
ParseEnd ==
    /\ pc = "parse"
    /\ i >= Len(lines)
    /\ remaining' = Remaining(lines, i)
    /\ pc' = "check"
    /\ UNCHANGED <<inputs, files, idx, overall_failed, lines, fields, desc_lines,
                   i, errs, results, stdout, stderr, exit_code>>

\* the checks of validate_patch_file on the parsed header
CheckHeader ==
    /\ pc = "check"
    /\ errs' = CheckFields(fields)
    /\ pc' = "report"
    /\ UNCHANGED <<inputs, files, idx, overall_failed, parser, results, stdout,
                   stderr, exit_code>>

\* NextFailed taking the last file's outcome for the run's
NextFailedLast(failed, es) == es # <<>>

\* overall_failed after the report of a file
NextFailed(failed, es) == IF es # <<>> THEN TRUE ELSE failed

\* what main prints for a file once validate_patch_file has returned
ReportLines(f, es) ==
    IF es # <<>>
    THEN <<Out("fail", f, Len(es), NoErr)>>
             \o [k \in 1..Len(es) |-> Out("error", <<>>, 0, es[k])]
    ELSE <<Out("ok", f, 0, NoErr)>>

\* the rest of the loop body: the marker line and the violations
Report ==
    /\ pc = "report"
    /\ overall_failed' = NextFailed(overall_failed, errs)
    /\ stdout' = stdout \o ReportLines(Current, errs)
    /\ results' = Append(results, errs)
    /\ idx' = idx + 1
    /\ pc' = "loop"
    /\ UNCHANGED <<inputs, files, parser, errs, stderr, exit_code>>

\* return 1 if overall_failed else 0
Return ==
    /\ pc = "loop"
    /\ idx > Len(files)
    /\ exit_code' = IF overall_failed THEN 1 ELSE 0
    /\ pc' = "done"
    /\ UNCHANGED <<inputs, files, idx, overall_failed, parser, errs, results,
                   stdout, stderr>>

Next ==
    \/ NoPatchesDir
    \/ NoPatchFiles
    \/ ResolveFiles
    \/ OpenFails
    \/ EmptyFile
    \/ StartParse
    \/ ParseStep
    \/ ParseEnd
    \/ CheckHeader
    \/ Report
    \/ Return

Spec == Init /\ [][Next]_vars

\* ------------------------------------------------------- pr_jira_commentor

\* the longest list of files of a pull request
MaxPrFiles == 2

TitlePlain == <<"F", "i", "x", " ", "b", "u", "i", "l", "d">>

TitleKey == <<"A", "B", "C", "-", "1", "2", "3", ":", " ", "f", "i", "x">>

BodyKey == <<"s", "e", "e", " ", "e", "n", "g", "-", "7">>

TextPlain == <<"n", "o", " ", "k", "e", "y", " ", "h", "e", "r", "e", NL>>

SrcFile == <<"s", "r", "c", "/", "m", ".", "p", "y">>

PatchFile == <<"p", "a", "t", "c", "h", "e", "s", "/", "a", ".", "p", "a", "t", "c", "h">>

\* the entries GitHub may list for a pull request: the file name, whether
\* the GET of raw_url succeeds, and the text it returns
PrFileSet ==
    {[filename |-> SrcFile, ok |-> TRUE, text |-> LJiraOk],
     [filename |-> PatchFile, ok |-> TRUE, text |-> LJiraOk],
     [filename |-> PatchFile, ok |-> FALSE, text |-> LJiraOk],
     [filename |-> PatchFile, ok |-> TRUE, text |-> TextPlain]}

\* validate_patch.py is not running
ValidatorIdle ==
    /\ argv = <<>>
    /\ dirExists = FALSE
    /\ dirEntries = {}
    /\ fs = EmptyDict
    /\ files = <<>>
    /\ idx = 0
    /\ overall_failed = FALSE
    /\ lines = <<>>
    /\ fields = EmptyDict
    /\ desc_lines = <<>>
    /\ i = 0
    /\ remaining = <<>>
    /\ errs = <<>>
    /\ results = <<>>

JInit ==
    /\ ValidatorIdle
    /\ dry_run_given \in BOOLEAN
    /\ env \in [{"GITHUB_TOKEN", "JIRA_BASE", "JIRA_USER", "JIRA_API_TOKEN"} -> BOOLEAN]
    /\ pr \in [title : {TitlePlain, TitleKey}, body : {<<>>, BodyKey}]
    /\ pr_files \in UNION {[1..m -> PrFileSet] : m \in 0..MaxPrFiles}
    /\ gh_up \in BOOLEAN
    /\ jira_up \in BOOLEAN
    /\ comments = <<>>
    /\ jira_posts = 0
    /\ pc = "start"
    /\ stdout = <<>>
    /\ stderr = <<>>
    /\ exit_code = -1

\* args.dry_run: the option is declared with action="store_true"
ArgsDryRun == dry_run_given

\* the loop over the files of the PR: some file under patches/ is fetched
\* and holds a ticket key
JiraFound(fl) ==
    \E k \in 1..Len(fl) :
        /\ StartsWith(fl[k].filename, PatchesDir)
        /\ fl[k].ok
        /\ JiraSearch(fl[k].text)

\* the PR title or body holds a ticket key
PrReferences == JiraSearch(pr.title) \/ JiraSearch(pr.body)

\* main without GITHUB_TOKEN: the diagnostic and status 2
JNoToken ==
    /\ pc = "start"
    /\ ~ env.GITHUB_TOKEN
    /\ stderr' = Append(stderr, "GITHUB_TOKEN required")
    /\ exit_code' = 2
    /\ pc' = "done"
    /\ UNCHANGED <<validator, commentor, stdout>>

\* the first gh_api call raises: nothing catches it
JFetchFails ==
    /\ pc = "start"
    /\ env.GITHUB_TOKEN
    /\ ~ gh_up
    /\ stderr' = Append(stderr, "Traceback (most recent call last): HTTPError")
    /\ exit_code' = 1
    /\ pc' = "crashed"
    /\ UNCHANGED <<validator, commentor, stdout>>

\* the PR title or body holds a ticket key: status 0
JAlreadyReferenced ==
    /\ pc = "start"
    /\ env.GITHUB_TOKEN
    /\ gh_up
    /\ PrReferences
    /\ stdout' = Append(stdout, Out("PR already references JIRA", <<>>, 0, NoErr))
    /\ exit_code' = 0
    /\ pc' = "done"
    /\ UNCHANGED <<validator, commentor, stderr>>

\* a patch file holds a ticket key: the comment and status 0
JFoundInPatch ==
    /\ pc = "start"
    /\ env.GITHUB_TOKEN
    /\ gh_up
    /\ ~ PrReferences
    /\ JiraFound(pr_files)
    /\ comments' = Append(comments, "found")
    /\ stdout' = Append(stdout, Out("Comment posted", <<>>, 0, NoErr))
    /\ exit_code' = 0
    /\ pc' = "done"
    /\ UNCHANGED <<validator, dry_run_given, env, pr, pr_files, gh_up, jira_up,
                   jira_posts, stderr>>

\* no ticket key anywhere: the guidance comment
JGuidance ==
    /\ pc = "start"
    /\ env.GITHUB_TOKEN
    /\ gh_up
    /\ ~ PrReferences
    /\ ~ JiraFound(pr_files)
    /\ comments' = Append(comments, "guidance")
    /\ stdout' = Append(stdout, Out("Posted guidance comment", <<>>, 0, NoErr))
    /\ pc' = "guided"
    /\ UNCHANGED <<validator, dry_run_given, env, pr, pr_files, gh_up, jira_up,
                   jira_posts, stderr, exit_code>>

\* if not args.dry_run: false, main returns
JSkipIssue ==
    /\ pc = "guided"
    /\ ArgsDryRun
    /\ exit_code' = 0
    /\ pc' = "done"
    /\ UNCHANGED <<validator, commentor, stdout, stderr>>

\* create_jira_issue(dry_run=False) raises for a missing credential; main
\* catches it
JMissingCredentials ==
    /\ pc = "guided"
    /\ ~ ArgsDryRun
    /\ ~ (env.JIRA_BASE /\ env.JIRA_USER /\ env.JIRA_API_TOKEN)
    /\ stdout' = Append(stdout, Out("Failed to create Jira issue", <<>>, 0, NoErr))
    /\ exit_code' = 0
    /\ pc' = "done"
    /\ UNCHANGED <<validator, commentor, stderr>>

\* create_jira_issue(dry_run=False) posts the issue, then the comment
JIssueCreated ==
    /\ pc = "guided"
    /\ ~ ArgsDryRun
    /\ env.JIRA_BASE /\ env.JIRA_USER /\ env.JIRA_API_TOKEN
    /\ jira_up
    /\ jira_posts' = jira_posts + 1
    /\ comments' = Append(comments, "created")
    /\ exit_code' = 0
    /\ pc' = "done"
    /\ UNCHANGED <<validator, dry_run_given, env, pr, pr_files, gh_up, jira_up,
                   stdout, stderr>>

\* create_jira_issue(dry_run=False) posts the issue and raise_for_status
\* raises; main catches it
JIssueFails ==
    /\ pc = "guided"
    /\ ~ ArgsDryRun
    /\ env.JIRA_BASE /\ env.JIRA_USER /\ env.JIRA_API_TOKEN
    /\ ~ jira_up
    /\ jira_posts' = jira_posts + 1
    /\ stdout' = Append(stdout, Out("Failed to create Jira issue", <<>>, 0, NoErr))
    /\ exit_code' = 0
    /\ pc' = "done"
    /\ UNCHANGED <<validator, dry_run_given, env, pr, pr_files, gh_up, jira_up,
                   comments, stderr>>

JNext ==
    \/ JNoToken
    \/ JFetchFails
    \/ JAlreadyReferenced
    \/ JFoundInPatch
    \/ JGuidance
    \/ JSkipIssue
    \/ JMissingCredentials
    \/ JIssueCreated
    \/ JIssueFails

SpecJira == JInit /\ [][JNext]_vars

\* ------------------------------------------------------------- properties

\* ls is the lines of header h in some order, followed by the diff line
IsOrderOf(ls, h) ==
    /\ Len(ls) = Len(h) + 1
    /\ ls[Len(ls)] = LDiff
    /\ \A x \in Range(h) : \E k \in 1..Len(h) : ls[k] = x

\* one "Missing or empty required header field" violation per required key
SixMissing == [k \in 1..Len(REQUIRED_KEYS) |-> Err("Missing", REQUIRED_KEYS[k])]

AllReadable == \A k \in 1..Len(files) : fs[files[k]].readable

Ended == pc \in {"done", "crashed"}

\* C1: a file holding only the line `diff --git a/x b/x` gets exactly six
\* violations, one "Missing or empty required header field" per required
\* key, and no ticket, Upstream or Description violation.
C1_DiffOnlySixViolations ==
    (pc = "report" /\ lines = <<LDiff>>) => errs = SixMissing

\* C2: when a path cannot be opened the run does not abort: that file gets
\* a single violation, every file of the list is validated, and the run
\* ends with its report and exit code 1.
C2_UnreadableFileReported ==
    (Ended /\ files # <<>> /\ ~ AllReadable) =>
        /\ pc = "done"
        /\ exit_code = 1
        /\ Len(results) = Len(files)
        /\ \A k \in 1..Len(files) :
               ~ fs[files[k]].readable => Len(results[k]) = 1

\* C3: a header of the six required fields with valid values, one per line
\* and in any order, followed by the diff line, gets no violation.
C3_ValidHeaderAnyOrder ==
    (pc = "report" /\ IsOrderOf(lines, ValidHeader)) => errs = <<>>

\* the format and value violations of MultiHeader
MultiErrs ==
    <<Err("JIRA", <<"n", "o", "t", "t", "i", "c", "k", "e", "t", "s">>),
      Err("Upstream", <<"s", "u", "r", "e">>),
      DescriptionErr>>

C5_ExitCodeIffAnyViolation ==
    (pc = "done" /\ files # <<>> /\ AllReadable) =>
        /\ Len(results) = Len(files)
        /\ \A k \in 1..Len(files) : results[k] = ValidateLines(fs[files[k]].lines)
        /\ exit_code \in {0, 1}
        /\ exit_code = 1 <=>
               \E k \in 1..Len(files) : ValidateLines(fs[files[k]].lines) # <<>>

\* a run of two readable files, the first with violations and the second
\* clean, that ended with status 1
C5_Witness ==
    /\ pc = "done"
    /\ Len(files) = 2
    /\ AllReadable
    /\ Len(results) = 2
    /\ results[1] # <<>>
    /\ results[2] = <<>>
    /\ exit_code = 1

\* no name of patches/ ends in .patch or .diff
NothingMatches ==
    \A e \in dirEntries : ~ EndsWith(e, ExtPatch) /\ ~ EndsWith(e, ExtDiff)

\* C6: with no paths given and patches/ missing, or holding no .patch or
\* .diff file, main validates no file and prints no "Validating" line; it
\* ends with a diagnostic and exit code 1.
C6_NoInputNoValidation ==
    (argv = <<>> /\ (~ dirExists \/ NothingMatches)) =>
        /\ pc \in {"start", "done"}
        /\ stdout = <<>>
        /\ results = <<>>
        /\ pc = "done" => (exit_code = 1 /\ Len(stderr) = 1)

\* a run that ended over a patches/ folder holding only notes.txt
C6_Witness ==
    /\ pc = "done"
    /\ argv = <<>>
    /\ dirExists
    /\ dirEntries = {NameC}
    /\ exit_code = 1

\* C7: a file of zero bytes gets exactly the violation "Empty file", and
\* the header is neither parsed nor checked for it.
C7_EmptyFileOneViolation ==
    /\ \A k \in 1..Len(results) :
           fs[files[k]] = File(<<>>) => results[k] = <<EmptyFileErr>>
    /\ (pc \in {"parse", "check", "report"} /\ fs[Current] = File(<<>>)) =>
           (pc = "report" /\ errs = <<EmptyFileErr>>)

\* an empty file, second in the list, whose result is about to be printed
C7_Witness ==
    /\ pc = "report"
    /\ idx = 2
    /\ fs[Current] = File(<<>>)
    /\ errs = <<EmptyFileErr>>

\* C8: the Description-length violation is reported if and only if the
\* trimmed Description value, over all its lines, is shorter than 20
\* characters: 20 characters pass, 19 fail.
C8_DescriptionLengthBoundary ==
    (pc = "report" /\ lines # <<>>) =>
        /\ DescriptionErr \in Range(errs)
               <=> Len(Strip(Get(fields, KeyDescription))) < 20
        /\ lines = <<LDesc10, LCont9, LDiff>> => DescriptionErr \notin Range(errs)
        /\ lines = <<LDesc10, LCont8, LDiff>> => DescriptionErr \in Range(errs)

\* a Description of two lines and exactly 20 characters that passed
C8_Witness ==
    /\ pc = "report"
    /\ lines = <<LDesc10, LCont9, LDiff>>
    /\ Len(fields[KeyDescription]) = 20
    /\ NL \in Range(fields[KeyDescription])
    /\ DescriptionErr \notin Range(errs)

\* C9: invoked without --dry-run, pr_jira_commentor sends no issue-creation
\* request to Jira.
C9_DryRunByDefault == ~ dry_run_given => jira_posts = 0

\* what C10 has main print for file f: the progress line, one marker line,
\* and a line per violation (one violation for a file that cannot be read)
RECURSIVE ExpectedOutput(_)
ExpectedOutput(fl) ==
    IF fl = <<>> THEN <<>>
    ELSE LET f == fl[1]
             es == IF fs[f].readable THEN ValidateLines(fs[f].lines)
                   ELSE <<Err("I/O error", <<>>)>>
         IN <<ValidatingLine(f)>> \o ReportLines(f, es) \o ExpectedOutput(Tail(fl))

\* C10: for every list of files the output comes file by file in the order
\* given: the "Validating" line, then exactly one marker line, then one line
\* per violation of that file, before the next file's "Validating" line.
C10_OutputFileByFile ==
    (Ended /\ files # <<>>) => stdout = ExpectedOutput(files)

\* C10 on the lists of readable files only
OutputFileByFileReadable ==
    (Ended /\ files # <<>> /\ AllReadable) => stdout = ExpectedOutput(files)

\* a line that starts with `diff `, `+++ `, `--- ` or `@@ `
BoundaryLine(l) ==
    \E p \in {<<"d", "i", "f", "f", " ">>, <<"+", "+", "+", " ">>,
              <<"-", "-", "-", " ">>, <<"@", "@", " ">>} :
        /\ Len(l) >= Len(p)
        /\ \A k \in 1..Len(p) : l[k] = p[k]

\* the 0-based index of the first diff-boundary line of ls, or the line count
FirstBoundary(ls) ==
    IF \E k \in 1..Len(ls) : BoundaryLine(ls[k])
    THEN (CHOOSE k \in 1..Len(ls) :
              /\ BoundaryLine(ls[k])
              /\ \A h \in 1..(k - 1) : ~ BoundaryLine(ls[h])) - 1
    ELSE Len(ls)

\* C11: parse_header stops with its cursor at the index of the first
\* diff-boundary line, or at the line count when there is none; the cursor
\* never exceeds the line count, the remainder is the lines from the cursor
\* on, and the fields are those of the lines before the cursor alone (the
\* lines at and after the cursor contribute nothing); no lines give no
\* fields and cursor 0.
C11_CursorAtFirstBoundary ==
    /\ pc \in {"parse", "check"} => i <= Len(lines)
    /\ ParseHeader(<<>>).i = 0 /\ ParseHeader(<<>>).fields = EmptyDict
    /\ pc = "check" =>
           /\ i = FirstBoundary(lines)
           /\ Len(remaining) = Len(lines) - i
           /\ \A k \in 1..Len(remaining) : remaining[k] = lines[i + k]
           /\ fields = ParseHeader(SubSeq(lines, 1, i)).fields
           /\ BoundaryLine(lines[1]) => (i = 0 /\ fields = EmptyDict)

\* the scan ended by the blank line before a hunk marker: the cursor is on
\* the marker and the field before it is kept
C11_Witness ==
    /\ pc = "check"
    /\ lines = <<LJiraOk, LBlank, LHunk>>
    /\ i = 2
    /\ remaining = <<LHunk>>
    /\ KeyJIRA \in DOMAIN fields

\* C12: every non-blank line before the diff boundary that matches
\* `<Identifier>: <value>` is recorded as a field under its identifier,
\* wherever it stands in the header, and its trimmed remainder is the value
\* stored (for a key other than Description that no later line gives again).
C12_EveryFieldLineRecorded ==
    pc = "check" =>
        \A k \in 1..i :
            LET line == RStripNL(lines[k])
                m == HeaderMatch(line)
            IN (Strip(line) # <<>> /\ m.ok) =>
                   /\ m.key \in DOMAIN fields
                   /\ (/\ m.key # KeyDescription
                       /\ \A h \in (k + 1)..i :
                              HeaderMatch(RStripNL(lines[h])).key # m.key)
                          => fields[m.key] = Strip(m.value)

\* the 0-based index at which the block of the Description line at index k
\* ends: the first blank or diff-boundary line after it, or the line count
BlockEnd(ls, k) ==
    IF \E h \in (k + 2)..Len(ls) : BoundaryLine(ls[h]) \/ Strip(ls[h]) = <<>>
    THEN (CHOOSE h \in (k + 2)..Len(ls) :
              /\ BoundaryLine(ls[h]) \/ Strip(ls[h]) = <<>>
              /\ \A g \in (k + 2)..(h - 1) :
                     ~ (BoundaryLine(ls[g]) \/ Strip(ls[g]) = <<>>)) - 1
    ELSE Len(ls)

\* the value C13 gives the Description line at 0-based index k: its initial
\* value and the continuation lines right after it, trimmed, joined by "\n"
DescBlockValue(ls, k) ==
    LET m == HeaderMatch(RStripNL(ls[k + 1]))
        first == IF m.value # <<>> THEN <<Strip(m.value)>> ELSE <<>>
        more == [h \in 1..(BlockEnd(ls, k) - (k + 1)) |-> Strip(ls[k + 1 + h])]
    IN Strip(JoinNL(first \o more))

\* the 0-based index of the last `Description:` line of the header of ls that
\* is not itself a continuation line, scanning from index k; last if none
RECURSIVE LastDescStart(_, _, _)
LastDescStart(ls, k, last) ==
    IF k >= Len(ls) \/ BoundaryLine(ls[k + 1]) THEN last
    ELSE IF HeaderMatch(RStripNL(ls[k + 1])).key = KeyDescription
    THEN LastDescStart(ls, BlockEnd(ls, k), k)
    ELSE LastDescStart(ls, k + 1, last)

\* the number of `Description:` blocks of the header of ls from index k on
RECURSIVE DescBlocks(_, _)
DescBlocks(ls, k) ==
    IF k >= Len(ls) \/ BoundaryLine(ls[k + 1]) THEN 0
    ELSE IF HeaderMatch(RStripNL(ls[k + 1])).key = KeyDescription
    THEN 1 + DescBlocks(ls, BlockEnd(ls, k))
    ELSE DescBlocks(ls, k + 1)

\* the stored Description is the value of the last `Description:` block, and
\* no other stored value spans lines
DescriptionOwnBlock ==
    LET s == LastDescStart(lines, 0, -1) IN
    /\ s < 0 => KeyDescription \notin DOMAIN fields
    /\ s >= 0 => (/\ KeyDescription \in DOMAIN fields
                  /\ fields[KeyDescription] = DescBlockValue(lines, s))
    /\ \A key \in DOMAIN fields \ {KeyDescription} : NL \notin Range(fields[key])

\* C13: the value stored for Description is the initial value of a
\* `Description:` line followed by the continuation lines right after that
\* line, each trimmed and joined by newline, up to the first blank line or
\* diff boundary; it holds no text of another part of the header, an earlier
\* `Description:` block included, and no other field takes continuation
\* lines.
C13_DescriptionFromOwnBlock == pc = "check" => DescriptionOwnBlock

\* C13 on the headers with one `Description:` block at most
DescriptionFromSingleBlock ==
    (pc = "check" /\ DescBlocks(lines, 0) <= 1) => DescriptionOwnBlock

\* C14: parse_header terminates: every pass of its loop either leaves the
\* loop or moves the cursor strictly forward, never past the line count (the
\* pass of a Description block included), so the loop is left after at most
\* one pass per line.
C14_EveryPassAdvances ==
    [][(pc = "parse" /\ i < Len(lines)) =>
          \/ pc' = "check"
          \/ pc' = "parse" /\ i' > i /\ i' <= Len(lines)]_vars

\* the scan after the pass of a Description block of two lines: the cursor
\* went from 0 to 2
C14_Witness ==
    /\ pc = "parse"
    /\ lines = <<LDesc10, LCont9, LDiff>>
    /\ i = 2
    /\ KeyDescription \in DOMAIN fields

====
